---- MODULE Spec2Model ----
(***************************************************************************)
(* DataLakeFoundations (refarch/aws-native/common/common_cdk/              *)
(* foundations.py): the constructor of the nested stack as a state         *)
(* machine, one action per statement group of __init__, plus the read-only *)
(* accessors its consumers call once the constructor has returned.         *)
(* Strings are sequences of one-character strings, so that concatenation   *)
(* is sequence concatenation and two spellings of a name or URI differ.    *)
(***************************************************************************)
EXTENDS Naturals, Sequences, FiniteSets, TLC

VARIABLES
    account,    \* self.account: the account id of the enclosing environment
    keyEnv,     \* what bucket.encryption_key is for each bucket the libraries build
    failAt,     \* the step whose collaborator fails to provision, or "none"
    executor,   \* "source_order" (the code) or "parallel" (independent subtrees)
    pc,         \* per subtree: index of the next step of that subtree
    self,       \* the DataLakeFoundations object under construction
    consumer,   \* outcome of the last accessor call made by a sibling stack
    deployed,   \* per account: names of the entities earlier builds declared
    builds      \* number of constructor runs so far

vars == <<account, keyEnv, failAt, executor, pc, self, consumer, deployed, builds>>

----------------------------------------------------------------------------
(* Bounds *)

MaxAcctLen == 1
MaxBuilds == 2

Digits == {"1", "2"}
Accounts == UNION {[1..n -> Digits] : n \in 1..MaxAcctLen}

Range(f) == {f[x] : x \in DOMAIN f}

----------------------------------------------------------------------------
(* The object's private slots and the accessors that read them *)

Unset == "<unset>"
None == "None"

Accessors ==
    {"raw_s3_bucket", "clean_s3_bucket", "curated_s3_bucket", "raw_glue_db",
     "clean_glue_db", "curated_glue_db", "audit_glue_db", "logs_s3_bucket",
     "vpc", "private_subnets_selection", "public_subnets_selection",
     "admin_group", "analysts_group", "developers_group", "lf_admin_role"}

\* The slot `return self.__x` reads, for each @property.
Backing(a) ==
    CASE a = "raw_s3_bucket" -> "__raw_s3_bucket"
      [] a = "clean_s3_bucket" -> "__clean_s3_bucket"
      [] a = "curated_s3_bucket" -> "__curated_s3_bucket"
      [] a = "raw_glue_db" -> "__raw_glue_db"
      [] a = "clean_glue_db" -> "__clean_glue_db"
      [] a = "curated_glue_db" -> "__curated_glue_db"
      [] a = "audit_glue_db" -> "__audit_glue_db"
      [] a = "logs_s3_bucket" -> "__logs_s3_bucket"
      [] a = "vpc" -> "__vpc"
      [] a = "private_subnets_selection" -> "__private_subnets"
      [] a = "public_subnets_selection" -> "__public_subnets"
      [] a = "admin_group" -> "__admin_group"
      [] a = "analysts_group" -> "__analysts_group"
      [] a = "developers_group" -> "__developers_group"
      [] a = "lf_admin_role" -> "__lf_admin_role"

Slots == {Backing(a) : a \in Accessors}

\* No @x.setter is defined for any property.
\* Faulty variant: raw_s3_bucket given a setter.
HasSetterMut(a) == a = "raw_s3_bucket"
HasSetter(a) == FALSE

----------------------------------------------------------------------------
(* Entities built by the collaborators *)

RawBucket == "DataLakeStorage.raw_bucket"
CleanBucket == "DataLakeStorage.clean_bucket"
TransformBucket == "DataLakeStorage.transform_bucket"
LogsBucket == "Logs.bucket"
RawDb == "DataLakeCatalog.raw_database"
CleanDb == "DataLakeCatalog.clean_database"
TransformDb == "DataLakeCatalog.transform_database"
AuditDb == "AuditGlueDB"

TierBuckets == {RawBucket, CleanBucket, TransformBucket}
Buckets == TierBuckets \cup {LogsBucket}
Databases == {RawDb, CleanDb, TransformDb, AuditDb}

\* bucket.encryption_key.key_id of a bucket that carries a key
KeyId(b) ==
    CASE b = RawBucket -> "key-raw"
      [] b = CleanBucket -> "key-clean"
      [] b = TransformBucket -> "key-transform"
      [] b = LogsBucket -> "key-logs"

KeyEnvs == {k \in [Buckets -> {None, "key-raw", "key-clean", "key-transform", "key-logs"}] :
               \A b \in Buckets : k[b] \in {None, KeyId(b)}}

\* DataLakeStorage names its buckets tier + "-" + account id.
TierBucketName(b, acct) ==
    CASE b = RawBucket -> <<"r", "a", "w", "-">> \o acct
      [] b = CleanBucket -> <<"c", "l", "e", "a", "n", "-">> \o acct
      [] b = TransformBucket -> <<"c", "u", "r", "a", "t", "e", "d", "-">> \o acct

\* 'ara-logs-' + self.account
\* Faulty variant: the logs bucket named like the raw bucket.
LogsBucketNameMut(acct) == <<"r", "a", "w", "-">> \o acct
LogsBucketName(acct) == <<"a", "r", "a", "-", "l", "o", "g", "s", "-">> \o acct

\* 'ara_audit_data_' + self.account
AuditDbName(acct) ==
    <<"a", "r", "a", "_", "a", "u", "d", "i", "t", "_", "d", "a", "t", "a", "_">> \o acct

\* group_name of the three IAM groups
GroupName(id) ==
    CASE id = "GroupAdmins" -> <<"a", "r", "a", "-", "a", "d", "m", "i", "n", "s">>
      [] id = "GroupAnalysts" -> <<"a", "r", "a", "-", "a", "n", "a", "l", "y", "s", "t", "s">>
      [] id = "GroupDevelopers" ->
            <<"a", "r", "a", "-", "d", "e", "v", "e", "l", "o", "p", "e", "r", "s">>

\* 's3:////' + bucket_name
RawLocationUri(bucketName) == <<"s", "3", ":", "/", "/", "/", "/">> \o bucketName

NoUri == <<>>

----------------------------------------------------------------------------
(* Build order: the statements of __init__, grouped by independent subtree *)

\* Faulty variant: line 107 moved above lines 96-98.
ChainOrderMut ==
    <<"CreateCatalog", "CreateAuditDb", "CreateStorage", "CreateLogsBucket",
      "SetRawLocation", "BindStorageBuckets", "CreateAuditTrail",
      "S3LocationRaw", "S3LocationClean", "S3LocationTransform">>
ChainOrder ==
    <<"CreateCatalog", "CreateAuditDb", "CreateStorage", "CreateLogsBucket",
      "BindStorageBuckets", "CreateAuditTrail", "SetRawLocation",
      "S3LocationRaw", "S3LocationClean", "S3LocationTransform">>
NetworkOrder == <<"CreateVpc", "SelectPublic", "SelectPrivate", "AddGatewayEndpoint">>
IamOrder == <<"GroupAdmins", "GroupAnalysts", "GroupDevelopers">>

Subtrees == <<"chain", "network", "iam">>
Order(t) ==
    CASE t = "chain" -> ChainOrder
      [] t = "network" -> NetworkOrder
      [] t = "iam" -> IamOrder

BuildOrder == ChainOrder \o NetworkOrder \o IamOrder
Steps == Range(BuildOrder)

\* Steps that call a collaborator's constructor or method and so can fail upstream.
Provisioning == Steps \ {"BindStorageBuckets", "SetRawLocation"}

----------------------------------------------------------------------------
(* The object under construction *)

Groups == {"GroupAdmins", "GroupAnalysts", "GroupDevelopers"}
Named == Buckets \cup {AuditDb} \cup Groups
NoName == <<>>

NewObject ==
    [slots |-> [s \in Slots |-> Unset],
     writes |-> [s \in Slots |-> 0],
     tree |-> {},
     names |-> [e \in Named |-> NoName],
     encryption_key |-> [b \in Buckets |-> Unset],
     location_uri |-> [d \in Databases |-> NoUri],
     locWrites |-> [d \in Databases |-> 0],
     regs |-> <<>>,
     audit |-> <<>>,
     endpoints |-> <<>>,
     fault |-> "none",
     faultAt |-> "none"]

UnsetAttribute == "AttributeError: object has no attribute"
NoneKey == "AttributeError: 'NoneType' object has no attribute 'key_id'"
UnboundLocal == "NameError"
UpstreamFailure == "UpstreamProvisioningFailure"

\* An exception leaves __init__: nothing after the raising expression runs.
Raise(o, step, err) == [o EXCEPT !.fault = err, !.faultAt = step]

\* self.__slot = h
Assign(o, slot, h) == [o EXCEPT !.slots[slot] = h, !.writes[slot] = @ + 1]

\* A construct is added to the scope's tree under its id.
Construct(o, id) == [o EXCEPT !.tree = @ \cup {id}]

\* catalog = DataLakeCatalog(...); the three tier databases are bound to slots.
CreateCatalogStep(o) ==
    IF failAt = "CreateCatalog" THEN Raise(o, "CreateCatalog", UpstreamFailure)
    ELSE Assign(Assign(Assign(Construct(o, "DataLakeCatalog"),
                              "__raw_glue_db", RawDb),
                       "__clean_glue_db", CleanDb),
                "__curated_glue_db", TransformDb)

\* self.__audit_glue_db = Database(self, 'AuditGlueDB', database_name=...)
CreateAuditDbStep(o) ==
    IF failAt = "CreateAuditDb" THEN Raise(o, "CreateAuditDb", UpstreamFailure)
    ELSE LET c == Construct(o, "AuditGlueDB")
             n == [c EXCEPT !.names[AuditDb] = AuditDbName(account)]
         IN  Assign(n, "__audit_glue_db", AuditDb)

\* storage = DataLakeStorage(self, 'DataLakeStorage'): three buckets, each
\* with the name and the encryption key (or None) the library gives it.
CreateStorageStep(o) ==
    IF failAt = "CreateStorage" THEN Raise(o, "CreateStorage", UpstreamFailure)
    ELSE LET c == Construct(o, "DataLakeStorage")
         IN  [c EXCEPT
                !.names = [e \in Named |->
                              IF e \in TierBuckets THEN TierBucketName(e, account)
                              ELSE @[e]],
                !.encryption_key = [b \in Buckets |->
                              IF b \in TierBuckets THEN keyEnv[b] ELSE @[b]]]

\* self.__logs_s3_bucket = AutoEmptyBucket(self, 'Logs', bucket_name=..., uuid=...).bucket
CreateLogsBucketStep(o) ==
    IF failAt = "CreateLogsBucket" THEN Raise(o, "CreateLogsBucket", UpstreamFailure)
    ELSE LET c == Construct(o, "Logs")
             n == [c EXCEPT !.names[LogsBucket] = LogsBucketName(account),
                            !.encryption_key[LogsBucket] = keyEnv[LogsBucket]]
         IN  Assign(n, "__logs_s3_bucket", LogsBucket)

\* self.__raw_s3_bucket = storage.raw_bucket, and likewise clean and curated
BindStorageBucketsStep(o) ==
    IF "DataLakeStorage" \notin o.tree
    THEN Raise(o, "BindStorageBuckets", UnboundLocal)
    ELSE Assign(Assign(Assign(o, "__raw_s3_bucket", RawBucket),
                       "__clean_s3_bucket", CleanBucket),
                "__curated_s3_bucket", TransformBucket)

\* AuditTrailGlue(self, 'GlueAudit', log_bucket, audit_bucket, audit_db, audit_table)
CreateAuditTrailStep(o) ==
    LET logs == o.slots["__logs_s3_bucket"]
        cur == o.slots["__curated_s3_bucket"]
        db == o.slots["__audit_glue_db"]
    IN  IF Unset \in {logs, cur, db}
        THEN Raise(o, "CreateAuditTrail", UnsetAttribute)
        ELSE IF failAt = "CreateAuditTrail"
        THEN Raise(o, "CreateAuditTrail", UpstreamFailure)
        ELSE [Construct(o, "GlueAudit") EXCEPT
                !.audit = Append(@, [log_bucket |-> logs, audit_bucket |-> cur,
                                     audit_db |-> db, audit_table |-> o.names[cur]])]

\* self.__raw_glue_db.location_uri = 's3:////' + self.__raw_s3_bucket.bucket_name
\* Faulty variant: the location written to the clean database.
SetRawLocationStepMut(o) ==
    LET bucket == o.slots["__raw_s3_bucket"]
        db == o.slots["__clean_glue_db"]
    IN  IF Unset \in {bucket, db}
        THEN Raise(o, "SetRawLocation", UnsetAttribute)
        ELSE [o EXCEPT !.location_uri[db] = RawLocationUri(o.names[bucket]),
                       !.locWrites[db] = @ + 1]
SetRawLocationStep(o) ==
    LET bucket == o.slots["__raw_s3_bucket"]
        db == o.slots["__raw_glue_db"]
    IN  IF Unset \in {bucket, db}
        THEN Raise(o, "SetRawLocation", UnsetAttribute)
        ELSE [o EXCEPT !.location_uri[db] = RawLocationUri(o.names[bucket]),
                       !.locWrites[db] = @ + 1]

\* The slot whose bucket each LakeFormationS3Location construct registers.
\* Faulty variant: the third location registered for the logs bucket.
LocationSlotMut(id) ==
    CASE id = "S3LocationRaw" -> "__raw_s3_bucket"
      [] id = "S3LocationClean" -> "__clean_s3_bucket"
      [] id = "S3LocationTransform" -> "__logs_s3_bucket"
LocationSlot(id) ==
    CASE id = "S3LocationRaw" -> "__raw_s3_bucket"
      [] id = "S3LocationClean" -> "__clean_s3_bucket"
      [] id = "S3LocationTransform" -> "__curated_s3_bucket"

\* LakeFormationS3Location(self, id, s3_location={bucket_name, object_key: ""},
\*                         kms_key_id=bucket.encryption_key.key_id)
S3LocationStep(o, id) ==
    LET bucket == o.slots[LocationSlot(id)]
    IN  IF bucket = Unset THEN Raise(o, id, UnsetAttribute)
        ELSE IF o.encryption_key[bucket] = None THEN Raise(o, id, NoneKey)
        ELSE IF failAt = id THEN Raise(o, id, UpstreamFailure)
        ELSE [Construct(o, id) EXCEPT
                !.regs = Append(@, [id |-> id, bucket |-> bucket,
                                    bucket_name |-> o.names[bucket],
                                    object_key |-> <<>>,
                                    kms_key_id |-> o.encryption_key[bucket]])]

\* self.__vpc = Vpc(self, 'Vpc')
CreateVpcStep(o) ==
    IF failAt = "CreateVpc" THEN Raise(o, "CreateVpc", UpstreamFailure)
    ELSE Assign(Construct(o, "Vpc"), "__vpc", "Vpc")

\* self.__public_subnets = self.__vpc.select_subnets(subnet_type=SubnetType.PUBLIC)
SelectPublicStep(o) ==
    IF o.slots["__vpc"] = Unset THEN Raise(o, "SelectPublic", UnsetAttribute)
    ELSE IF failAt = "SelectPublic" THEN Raise(o, "SelectPublic", UpstreamFailure)
    ELSE Assign(o, "__public_subnets", "Vpc.PUBLIC")

\* self.__private_subnets = self.__vpc.select_subnets(subnet_type=SubnetType.PRIVATE_WITH_NAT)
SelectPrivateStep(o) ==
    IF o.slots["__vpc"] = Unset THEN Raise(o, "SelectPrivate", UnsetAttribute)
    ELSE IF failAt = "SelectPrivate" THEN Raise(o, "SelectPrivate", UpstreamFailure)
    ELSE Assign(o, "__private_subnets", "Vpc.PRIVATE_WITH_NAT")

\* self.__vpc.add_gateway_endpoint("S3GatewayEndpoint", service=S3, subnets=[...])
\* Faulty variant: the endpoint attached only once the raw bucket is bound.
AddGatewayEndpointStepMut(o) ==
    IF o.slots["__vpc"] = Unset THEN Raise(o, "AddGatewayEndpoint", UnsetAttribute)
    ELSE IF failAt = "AddGatewayEndpoint"
    THEN Raise(o, "AddGatewayEndpoint", UpstreamFailure)
    ELSE IF o.slots["__raw_s3_bucket"] = Unset THEN o
    ELSE [o EXCEPT
            !.endpoints = Append(@, [id |-> "S3GatewayEndpoint", vpc |-> o.slots["__vpc"],
                                     service |-> "S3",
                                     subnets |-> <<"PUBLIC", "PRIVATE_WITH_NAT">>])]
AddGatewayEndpointStep(o) ==
    IF o.slots["__vpc"] = Unset THEN Raise(o, "AddGatewayEndpoint", UnsetAttribute)
    ELSE IF failAt = "AddGatewayEndpoint"
    THEN Raise(o, "AddGatewayEndpoint", UpstreamFailure)
    ELSE [o EXCEPT
            !.endpoints = Append(@, [id |-> "S3GatewayEndpoint", vpc |-> o.slots["__vpc"],
                                     service |-> "S3",
                                     subnets |-> <<"PUBLIC", "PRIVATE_WITH_NAT">>])]

GroupSlot(id) ==
    CASE id = "GroupAdmins" -> "__admin_group"
      [] id = "GroupAnalysts" -> "__analysts_group"
      [] id = "GroupDevelopers" -> "__developers_group"

\* self.__x_group = Group(self, id, group_name=...)
GroupStep(o, id) ==
    IF failAt = id THEN Raise(o, id, UpstreamFailure)
    ELSE LET c == Construct(o, id)
             n == [c EXCEPT !.names[id] = GroupName(id)]
         IN  Assign(n, GroupSlot(id), id)

\* The statement group `step` of __init__, run on object o.
Apply(step, o) ==
    CASE step = "CreateCatalog" -> CreateCatalogStep(o)
      [] step = "CreateAuditDb" -> CreateAuditDbStep(o)
      [] step = "CreateStorage" -> CreateStorageStep(o)
      [] step = "CreateLogsBucket" -> CreateLogsBucketStep(o)
      [] step = "BindStorageBuckets" -> BindStorageBucketsStep(o)
      [] step = "CreateAuditTrail" -> CreateAuditTrailStep(o)
      [] step = "SetRawLocation" -> SetRawLocationStep(o)
      [] step \in {"S3LocationRaw", "S3LocationClean", "S3LocationTransform"} ->
            S3LocationStep(o, step)
      [] step = "CreateVpc" -> CreateVpcStep(o)
      [] step = "SelectPublic" -> SelectPublicStep(o)
      [] step = "SelectPrivate" -> SelectPrivateStep(o)
      [] step = "AddGatewayEndpoint" -> AddGatewayEndpointStep(o)
      [] step \in Groups -> GroupStep(o, step)

----------------------------------------------------------------------------
(* Control *)

SubtreeNames == Range(Subtrees)
SubtreeOf(step) == CHOOSE t \in SubtreeNames : step \in Range(Order(t))
IndexOf(step) == CHOOSE i \in 1..Len(Order(SubtreeOf(step))) : Order(SubtreeOf(step))[i] = step
Finished(t) == pc[t] = Len(Order(t)) + 1
Before(t) == {Subtrees[j] : j \in {k \in 1..Len(Subtrees) :
                                      \E m \in 1..Len(Subtrees) : k < m /\ Subtrees[m] = t}}

\* Statements run top to bottom; an exception ends the constructor.
Turn(step) ==
    /\ self.fault = "none"
    /\ pc[SubtreeOf(step)] = IndexOf(step)
    /\ executor = "source_order" => \A u \in Before(SubtreeOf(step)) : Finished(u)

AllDone == \A t \in SubtreeNames : Finished(t)

\* The constructor call has returned the object to its caller.
\* Faulty variant: the object reachable by consumers while under construction.
ReturnedMut == TRUE
Returned == AllDone /\ self.fault = "none"

\* Control moves to the next statement unless the statement raised.
Advance(step) ==
    /\ pc' = IF self'.fault = "none"
             THEN [pc EXCEPT ![SubtreeOf(step)] = @ + 1]
             ELSE pc
    /\ UNCHANGED <<account, keyEnv, failAt, executor, consumer, deployed, builds>>

CreateCatalog ==
    /\ Turn("CreateCatalog")
    /\ self' = CreateCatalogStep(self)
    /\ Advance("CreateCatalog")

CreateAuditDb ==
    /\ Turn("CreateAuditDb")
    /\ self' = CreateAuditDbStep(self)
    /\ Advance("CreateAuditDb")

CreateStorage ==
    /\ Turn("CreateStorage")
    /\ self' = CreateStorageStep(self)
    /\ Advance("CreateStorage")

CreateLogsBucket ==
    /\ Turn("CreateLogsBucket")
    /\ self' = CreateLogsBucketStep(self)
    /\ Advance("CreateLogsBucket")

BindStorageBuckets ==
    /\ Turn("BindStorageBuckets")
    /\ self' = BindStorageBucketsStep(self)
    /\ Advance("BindStorageBuckets")

CreateAuditTrail ==
    /\ Turn("CreateAuditTrail")
    /\ self' = CreateAuditTrailStep(self)
    /\ Advance("CreateAuditTrail")

SetRawLocation ==
    /\ Turn("SetRawLocation")
    /\ self' = SetRawLocationStep(self)
    /\ Advance("SetRawLocation")

S3LocationRaw ==
    /\ Turn("S3LocationRaw")
    /\ self' = S3LocationStep(self, "S3LocationRaw")
    /\ Advance("S3LocationRaw")

S3LocationClean ==
    /\ Turn("S3LocationClean")
    /\ self' = S3LocationStep(self, "S3LocationClean")
    /\ Advance("S3LocationClean")

S3LocationTransform ==
    /\ Turn("S3LocationTransform")
    /\ self' = S3LocationStep(self, "S3LocationTransform")
    /\ Advance("S3LocationTransform")

CreateVpc ==
    /\ Turn("CreateVpc")
    /\ self' = CreateVpcStep(self)
    /\ Advance("CreateVpc")

SelectPublic ==
    /\ Turn("SelectPublic")
    /\ self' = SelectPublicStep(self)
    /\ Advance("SelectPublic")

SelectPrivate ==
    /\ Turn("SelectPrivate")
    /\ self' = SelectPrivateStep(self)
    /\ Advance("SelectPrivate")

AddGatewayEndpoint ==
    /\ Turn("AddGatewayEndpoint")
    /\ self' = AddGatewayEndpointStep(self)
    /\ Advance("AddGatewayEndpoint")

GroupAdmins ==
    /\ Turn("GroupAdmins")
    /\ self' = GroupStep(self, "GroupAdmins")
    /\ Advance("GroupAdmins")

GroupAnalysts ==
    /\ Turn("GroupAnalysts")
    /\ self' = GroupStep(self, "GroupAnalysts")
    /\ Advance("GroupAnalysts")

GroupDevelopers ==
    /\ Turn("GroupDevelopers")
    /\ self' = GroupStep(self, "GroupDevelopers")
    /\ Advance("GroupDevelopers")

----------------------------------------------------------------------------
(* Consumers: sibling stacks calling the accessors of the returned object *)

NoCall == [op |-> "none", accessor |-> "none", result |-> "none"]
Foreign == "<foreign>"

\* x = foundations.<accessor>
ReadAccessor ==
    /\ Returned
    /\ \E a \in Accessors :
          consumer' = [op |-> "get", accessor |-> a,
                       result |-> IF self.slots[Backing(a)] = Unset
                                  THEN UnsetAttribute
                                  ELSE self.slots[Backing(a)]]
    /\ UNCHANGED <<account, keyEnv, failAt, executor, pc, self, deployed, builds>>

\* foundations.<accessor> = x
SetAccessor ==
    /\ Returned
    /\ \E a \in Accessors :
          IF HasSetter(a)
          THEN /\ self' = [self EXCEPT !.slots[Backing(a)] = Foreign]
               /\ consumer' = [op |-> "set", accessor |-> a, result |-> Foreign]
          ELSE /\ self' = self
               /\ consumer' = [op |-> "set", accessor |-> a,
                               result |-> "AttributeError: can't set attribute"]
    /\ UNCHANGED <<account, keyEnv, failAt, executor, pc, deployed, builds>>

\* The app is synthesized again: a fresh DataLakeFoundations for some account.
BuildNames(o) == {o.names[e] : e \in Named} \ {NoName}

Rebuild ==
    /\ Returned
    /\ builds < MaxBuilds
    /\ builds' = builds + 1
    /\ deployed' = [deployed EXCEPT ![account] = @ \cup BuildNames(self)]
    /\ account' \in Accounts
    /\ self' = NewObject
    /\ pc' = [t \in SubtreeNames |-> 1]
    /\ consumer' = NoCall
    /\ UNCHANGED <<keyEnv, failAt, executor>>

----------------------------------------------------------------------------
(* Specifications *)

InitWith(ex) ==
    /\ account \in Accounts
    /\ keyEnv \in KeyEnvs
    /\ failAt \in {"none"} \cup Provisioning
    /\ executor = ex
    /\ pc = [t \in SubtreeNames |-> 1]
    /\ self = NewObject
    /\ consumer = NoCall
    /\ deployed = [a \in Accounts |-> {}]
    /\ builds = 1

Init == InitWith("source_order")
InitPar == InitWith("parallel")

Next ==
    \/ CreateCatalog \/ CreateAuditDb \/ CreateStorage \/ CreateLogsBucket
    \/ BindStorageBuckets \/ CreateAuditTrail \/ SetRawLocation
    \/ S3LocationRaw \/ S3LocationClean \/ S3LocationTransform
    \/ CreateVpc \/ SelectPublic \/ SelectPrivate \/ AddGatewayEndpoint
    \/ GroupAdmins \/ GroupAnalysts \/ GroupDevelopers
    \/ ReadAccessor \/ SetAccessor

NextRebuild == Next \/ Rebuild

\* The code: statements in source order.
Spec == Init /\ [][Next]_vars
\* An executor that interleaves the three independent subtrees.
SpecPar == InitPar /\ [][Next]_vars
\* The code, with the constructor run again.
SpecRebuild == Init /\ [][NextRebuild]_vars

\* The object the constructor yields when its statements run in source order.
RECURSIVE RunFrom(_, _)
RunFrom(o, i) ==
    IF i > Len(BuildOrder) \/ o.fault # "none" THEN o
    ELSE RunFrom(Apply(BuildOrder[i], o), i + 1)

SourceOrderResult == RunFrom(NewObject, 1)

----------------------------------------------------------------------------
(* Properties *)

LocationIds == {"S3LocationRaw", "S3LocationClean", "S3LocationTransform"}

\* The tier bucket each governed location is declared for.
TierOf(id) ==
    CASE id = "S3LocationRaw" -> RawBucket
      [] id = "S3LocationClean" -> CleanBucket
      [] id = "S3LocationTransform" -> TransformBucket

\* The slots behind the fourteen accessors the build assigns.
BuiltSlots == Slots \ {"__lf_admin_role"}

\* C1: once the constructor has returned, the raw database's location_uri is
\* the scheme prefix "s3://", then the raw bucket's name, then a trailing "/".
C1_RawLocationUri ==
    Returned =>
        self.location_uri[RawDb] =
            <<"s", "3", ":", "/", "/">> \o self.names[RawBucket] \o <<"/">>

\* C2: a raw, clean or curated bucket without an encryption key never makes
\* its registration step raise, and no governed location is declared for it.
C2_MissingKeySkipped ==
    \A id \in LocationIds :
        keyEnv[TierOf(id)] = None =>
            /\ ~(self.fault = NoneKey /\ self.faultAt = id)
            /\ \A i \in 1..Len(self.regs) : self.regs[i].bucket # TierOf(id)

\* C3: governed locations are declared for the raw, clean and curated buckets
\* only, at most once each and each with that bucket's own name and key id;
\* a returned build has declared all three; the logs bucket is never
\* registered, and a logs bucket without a key raises nothing: with the three
\* tier keys present and no upstream failure the build has no fault.
C3_GovernedLocations ==
    /\ \A i \in 1..Len(self.regs) :
          LET r == self.regs[i]
          IN  /\ r.id \in LocationIds
              /\ r.bucket = TierOf(r.id)
              /\ r.bucket # LogsBucket
              /\ r.bucket_name = self.names[TierOf(r.id)]
              /\ r.bucket_name # self.names[LogsBucket]
              /\ r.kms_key_id = KeyId(TierOf(r.id))
    /\ \A i, j \in 1..Len(self.regs) : i # j => self.regs[i].bucket # self.regs[j].bucket
    /\ Returned => {self.regs[i].bucket : i \in 1..Len(self.regs)} = TierBuckets
    /\ (failAt = "none" /\ \A b \in TierBuckets : keyEnv[b] # None) => self.fault = "none"

C3_Witness ==
    /\ Returned
    /\ keyEnv[LogsBucket] = None
    /\ Len(self.regs) = Cardinality(TierBuckets)

\* C4: no statement reads a slot or a local before it is assigned, and every
\* reference held (raw location, audit binding, governed location, gateway
\* endpoint) names entities whose constructs are already in the tree.
C4_NoForwardReference ==
    /\ self.fault \notin {UnsetAttribute, UnboundLocal}
    /\ self.locWrites[RawDb] > 0 =>
          /\ self.slots["__raw_s3_bucket"] = RawBucket
          /\ self.slots["__raw_glue_db"] = RawDb
          /\ {"DataLakeStorage", "DataLakeCatalog"} \subseteq self.tree
    /\ \A i \in 1..Len(self.audit) :
          /\ self.audit[i].log_bucket = LogsBucket
          /\ self.audit[i].audit_bucket = TransformBucket
          /\ self.audit[i].audit_db = AuditDb
          /\ self.audit[i].audit_table = self.names[TransformBucket]
          /\ self.audit[i].audit_table # NoName
          /\ {"Logs", "DataLakeStorage", "AuditGlueDB"} \subseteq self.tree
    /\ \A i \in 1..Len(self.regs) :
          /\ self.regs[i].bucket \in TierBuckets
          /\ self.regs[i].bucket_name # NoName
          /\ self.regs[i].kms_key_id \notin {None, Unset}
          /\ "DataLakeStorage" \in self.tree
    /\ \A i \in 1..Len(self.endpoints) :
          /\ self.endpoints[i].vpc = "Vpc"
          /\ "Vpc" \in self.tree

C4_Witness ==
    /\ Returned
    /\ self.locWrites[RawDb] = 1
    /\ Len(self.audit) = 1
    /\ Len(self.regs) = Cardinality(TierBuckets)
    /\ Len(self.endpoints) = 1

\* C5: each of the fourteen built slots is assigned at most once, exactly once
\* in a returned build, and no slot changes once the constructor has returned.
C5_WriteOnce ==
    /\ [](\A s \in BuiltSlots :
             /\ self.writes[s] <= 1
             /\ (self.writes[s] = 0) <=> (self.slots[s] = Unset)
             /\ Returned => self.writes[s] = 1)
    /\ [][Returned => self'.slots = self.slots]_vars

C5_Witness == Returned /\ consumer.op = "set"

C7_FailFast ==
    /\ [](consumer.op # "none" =>
             /\ AllDone
             /\ self.fault = "none"
             /\ \A s \in BuiltSlots : self.slots[s] # Unset)
    /\ [][self.fault # "none" => UNCHANGED <<self, pc, consumer>>]_vars

C7_Witness ==
    /\ self.fault = UpstreamFailure
    /\ self.slots["__raw_glue_db"] # Unset
    /\ self.slots["__vpc"] = Unset

\* C8: when the chain, network and identity subtrees are interleaved, a build
\* that runs every statement ends with the same object as the source order,
\* and a build that faults is one the source order aborts too.
C8_Confluence ==
    /\ AllDone => self = SourceOrderResult
    /\ self.fault # "none" => SourceOrderResult.fault # "none"

C8_Witness == executor = "parallel" /\ AllDone /\ Len(self.endpoints) = 1

\* C9: the raw database's location_uri is written at most once, exactly once
\* in a returned build, and only when the raw bucket exists and is bound; the
\* clean, curated and audit databases' location_uri is never written.
C9_LocationWrites ==
    /\ self.locWrites[RawDb] <= 1
    /\ Returned => self.locWrites[RawDb] = 1
    /\ self.locWrites[RawDb] = 1 =>
          /\ "DataLakeStorage" \in self.tree
          /\ self.slots["__raw_s3_bucket"] = RawBucket
          /\ self.location_uri[RawDb] # NoUri
    /\ \A d \in Databases \ {RawDb} :
          self.locWrites[d] = 0 /\ self.location_uri[d] = NoUri

C9_Witness == self.locWrites[RawDb] = 1 /\ ~AllDone

\* C10: once the constructor has returned, every accessor, lf_admin_role
\* included, reads a slot the build assigned, so no accessor call raises.
C10_AccessorsAssigned ==
    /\ Returned => \A a \in Accessors : self.slots[Backing(a)] # Unset
    /\ consumer.op = "get" => consumer.result # UnsetAttribute

====
